---- MODULE Spec2Model ----
(***************************************************************************)
(* A model of borgwrap (src/borgwraplib/app.py): the wrapper that turns a  *)
(* YAML policy into borgbackup invocations, runs the create pipeline       *)
(* (hooks, create, hooks, prune) and performs the nagios age/size check.   *)
(*                                                                         *)
(* Representation of Python values                                         *)
(*   dict        a sequence of <<key, value>> pairs in document order,     *)
(*               with distinct keys; `k in d` is Has(d, k), d[k] is        *)
(*               Get(d, k) and raises KeyError when the key is missing     *)
(*   str         a TLA+ string for paths, prefixes, hooks and tokens;      *)
(*               location.source, a str or a list, is [t |-> "str", s] or  *)
(*               [t |-> "list", l]                                         *)
(*   YAML scalar a tagged record, for the fields whose type the code       *)
(*               inspects or converts: [t |-> "bool", b], [t |-> "int", i],*)
(*               [t |-> "float", f] (f in tenths), [t |-> "str", c] (c the *)
(*               sequence of characters), [t |-> "null"]                   *)
(*   int | None  <<>> for None, <<n>> for the integer n                    *)
(***************************************************************************)
EXTENDS Integers, Sequences, FiniteSets, TLC

VARIABLES
    config,     \* the document returned by ConfigParser.parse
    args,       \* the argparse namespace
    pc,         \* the position of the run inside the selected execute()
    i,          \* the index of the hook loop in hooks_before / hooks_after
    launched,   \* every process handed to the SubprocessRunner, in order
    printed,    \* every line written to stdout by the wrapper, in order
    outcome,    \* "running", "ok", or the exception that ended the run
    report      \* what `info --last 1 --json` writes to stdout when it succeeds

vars == <<config, args, pc, i, launched, printed, outcome, report>>

----------------------------------------------------------------------------
(* Bounds of the model *)

MaxHooks == 2
MaxAgeHours == 2
MaxSizeMiB == 2
MaxRetention == 2
MaxExcludes == 2

(* Program constants *)

SecondsPerHour == 3600
BytesPerKiB == 1024

----------------------------------------------------------------------------
(* Python building blocks *)

Has(d, k) == \E j \in 1..Len(d) : d[j][1] = k

Get(d, k) == d[CHOOSE j \in 1..Len(d) : d[j][1] = k][2]

SeqsUpTo(S, n) == UNION {[1..m -> S] : m \in 0..n}

Digit(n) == CASE n = 0 -> "0" [] n = 1 -> "1" [] n = 2 -> "2" [] n = 3 -> "3"
              [] n = 4 -> "4" [] n = 5 -> "5" [] n = 6 -> "6" [] n = 7 -> "7"
              [] n = 8 -> "8" [] n = 9 -> "9"

RECURSIVE NatStr(_)
NatStr(n) == IF n < 10 THEN Digit(n) ELSE NatStr(n \div 10) \o Digit(n % 10)

\* str(n) and "{}".format(n) of an int
IntStr(n) == IF n < 0 THEN "-" \o NatStr(-n) ELSE NatStr(n)

RECURSIVE Join(_)
Join(cs) == IF cs = <<>> THEN "" ELSE Head(cs) \o Join(Tail(cs))

\* str.lower(), character by character
LowerChar(c) ==
    CASE c = "Y" -> "y" [] c = "E" -> "e" [] c = "S" -> "s" [] c = "T" -> "t"
      [] c = "R" -> "r" [] c = "U" -> "u" [] c = "N" -> "n" [] c = "O" -> "o"
      [] c = "F" -> "f" [] c = "A" -> "a" [] c = "L" -> "l"
      [] OTHER -> c

lower(cs) == [j \in 1..Len(cs) |-> LowerChar(cs[j])]

\* str(value) of a YAML scalar
PyStr(v) ==
    CASE v.t = "int" -> IntStr(v.i)
      [] v.t = "str" -> Join(v.c)
      [] v.t = "bool" -> IF v.b THEN "True" ELSE "False"
      [] v.t = "float" -> IntStr(v.f \div 10) \o "." \o IntStr(v.f % 10)
      [] v.t = "null" -> "None"

\* bool(x) of an int | None
Truthy(opt) == opt # <<>> /\ opt[1] # 0

----------------------------------------------------------------------------
(* config_is_true, app.py 76-84 *)

\* the coercion without the lower() of line 79
config_is_true_CaseSensitive(value) ==
    IF value.t = "bool" THEN value.b
    ELSE IF value.t = "str" /\ value.c \in {<<"y", "e", "s">>, <<"t", "r", "u", "e">>} THEN TRUE
    ELSE IF (value.t = "int" /\ value.i = 1) \/ (value.t = "float" /\ value.f = 10) THEN TRUE
    ELSE FALSE

config_is_true(value) ==
    IF value.t = "bool" THEN value.b
    ELSE IF value.t = "str" /\ lower(value.c) \in {<<"y", "e", "s">>, <<"t", "r", "u", "e">>} THEN TRUE
    ELSE IF (value.t = "int" /\ value.i = 1) \/ (value.t = "float" /\ value.f = 10) THEN TRUE
    ELSE FALSE

----------------------------------------------------------------------------
(* The pure part of the command compilers *)

Raised(e) == [err |-> e, cmds |-> <<>>, env |-> <<>>, capture |-> FALSE]

ArchiveTemplate == "-{utcnow:%Y-%m-%dT%H:%M:%SZ}"

\* run, app.py 87-102: the invocation handed to the runner, or the exception
\* raised before the runner is reached
run(action, cfg, archive, a, trailing_args, capture_stdout) ==
    IF ~Has(cfg, "remote") \/ ~Has(Get(cfg, "remote"), "repository") THEN Raised("KeyError")
    ELSE IF archive /\ ~Has(Get(cfg, "remote"), "prefix") THEN Raised("KeyError")
    ELSE LET remote == Get(cfg, "remote")
             repo == IF archive
                     THEN Get(remote, "repository") \o "::" \o Get(remote, "prefix") \o ArchiveTemplate
                     ELSE Get(remote, "repository")
             env == IF Has(remote, "rsh") THEN <<<<"BORG_RSH", Get(remote, "rsh")>>>> ELSE <<>>
         IN  [err |-> "none",
              cmds |-> <<"borgbackup", action>> \o a \o <<repo>> \o trailing_args,
              env |-> env,
              capture |-> capture_stdout]

\* for x in xs: cmd += [flag, x]
RECURSIVE FlagPairs(_, _)
FlagPairs(flag, xs) ==
    IF xs = <<>> THEN <<>> ELSE <<flag, Head(xs)>> \o FlagPairs(flag, Tail(xs))

\* action_create, app.py 106-108
action_create_source(location) ==
    LET source == Get(location, "source")
    IN  IF source.t = "str" THEN <<source.s>> ELSE source.l

\* the flags with the two exclude blocks in the opposite order
action_create_cmd_ExcludeFirst(cfg, dry_run) ==
    LET remote == Get(cfg, "remote")
        location == Get(cfg, "location")
    IN  (IF Has(remote, "compression")
         THEN <<"--compression", Get(remote, "compression")>> ELSE <<>>)
        \o (IF Has(location, "one_file_system") /\ config_is_true(Get(location, "one_file_system"))
            THEN <<"--one-file-system">> ELSE <<>>)
        \o (IF Has(location, "exclude_caches") /\ config_is_true(Get(location, "exclude_caches"))
            THEN <<"--exclude-caches">> ELSE <<>>)
        \o (IF Has(location, "exclude")
            THEN FlagPairs("--exclude", Get(location, "exclude")) ELSE <<>>)
        \o (IF Has(location, "exclude_if_present")
            THEN FlagPairs("--exclude-if-present", Get(location, "exclude_if_present")) ELSE <<>>)
        \o (IF dry_run THEN <<"--dry-run">> ELSE <<>>)

\* action_create, app.py 110-130
action_create_cmd(cfg, dry_run) ==
    LET remote == Get(cfg, "remote")
        location == Get(cfg, "location")
    IN  (IF Has(remote, "compression")
         THEN <<"--compression", Get(remote, "compression")>> ELSE <<>>)
        \o (IF Has(location, "one_file_system") /\ config_is_true(Get(location, "one_file_system"))
            THEN <<"--one-file-system">> ELSE <<>>)
        \o (IF Has(location, "exclude_caches") /\ config_is_true(Get(location, "exclude_caches"))
            THEN <<"--exclude-caches">> ELSE <<>>)
        \o (IF Has(location, "exclude_if_present")
            THEN FlagPairs("--exclude-if-present", Get(location, "exclude_if_present")) ELSE <<>>)
        \o (IF Has(location, "exclude")
            THEN FlagPairs("--exclude", Get(location, "exclude")) ELSE <<>>)
        \o (IF dry_run THEN <<"--dry-run">> ELSE <<>>)

\* action_create, app.py 105-132, up to the call of the runner
action_create_run(cfg, dry_run) ==
    IF ~Has(cfg, "location") \/ ~Has(Get(cfg, "location"), "source") THEN Raised("KeyError")
    ELSE IF ~Has(cfg, "remote") THEN Raised("KeyError")
    ELSE run("create", cfg, TRUE, action_create_cmd(cfg, dry_run),
             action_create_source(Get(cfg, "location")), FALSE)

\* one `if "keep_x" in config["retention"]` block of action_prune
Keep(retention, key, flag) ==
    IF Has(retention, key) THEN <<flag, PyStr(Get(retention, key))>> ELSE <<>>

\* the retention flags in the order of the document: for key in config["retention"]
RECURSIVE KeepsInDocumentOrder(_)
KeepsInDocumentOrder(retention) ==
    IF retention = <<>> THEN <<>>
    ELSE LET key == Head(retention)[1]
             flag == CASE key = "keep_last" -> "--keep-last"
                       [] key = "keep_within" -> "--keep-within"
                       [] key = "keep_hourly" -> "--keep-hourly"
                       [] key = "keep_daily" -> "--keep-daily"
                       [] key = "keep_weekly" -> "--keep-weekly"
                       [] key = "keep_monthly" -> "--keep-monthly"
                       [] key = "keep_yearly" -> "--keep-yearly"
         IN  <<flag, PyStr(Head(retention)[2])>> \o KeepsInDocumentOrder(Tail(retention))

action_prune_cmd_DocumentOrder(cfg, dry_run) ==
    <<"--stats", "--list">>
    \o <<"--prefix", Get(Get(cfg, "remote"), "prefix")>>
    \o (IF dry_run THEN <<"--dry-run">> ELSE <<>>)
    \o KeepsInDocumentOrder(Get(cfg, "retention"))

\* action_prune, app.py 179-204
action_prune_cmd(cfg, dry_run) ==
    LET retention == Get(cfg, "retention")
    IN  <<"--stats", "--list">>
        \o <<"--prefix", Get(Get(cfg, "remote"), "prefix")>>
        \o (IF dry_run THEN <<"--dry-run">> ELSE <<>>)
        \o Keep(retention, "keep_last", "--keep-last")
        \o Keep(retention, "keep_within", "--keep-within")
        \o Keep(retention, "keep_hourly", "--keep-hourly")
        \o Keep(retention, "keep_daily", "--keep-daily")
        \o Keep(retention, "keep_weekly", "--keep-weekly")
        \o Keep(retention, "keep_monthly", "--keep-monthly")
        \o Keep(retention, "keep_yearly", "--keep-yearly")

\* action_prune, app.py 178-206, up to the call of the runner
action_prune_run(cfg, dry_run) ==
    IF ~Has(cfg, "remote") \/ ~Has(Get(cfg, "remote"), "prefix") THEN Raised("KeyError")
    ELSE IF ~Has(cfg, "retention") THEN Raised("KeyError")
    ELSE run("prune", cfg, FALSE, action_prune_cmd(cfg, dry_run), <<>>, FALSE)

\* list called on an archive: run("list", config, archive=True)
action_list_run_Archive(cfg) == run("list", cfg, TRUE, <<>>, <<>>, FALSE)

\* action_list, app.py 135-136
action_list_run(cfg) == run("list", cfg, FALSE, <<>>, <<>>, FALSE)

\* action_check_age, app.py 140
action_check_age_run(cfg) == run("info", cfg, FALSE, <<"--last", "1", "--json">>, <<>>, TRUE)

----------------------------------------------------------------------------
(* The verdict of the monitoring check *)

\* A start timestamp is kept as the number of seconds it lies before now():
\* [t |-> "ts", ago |-> n]; [t |-> "bad"] is a string strptime rejects.
TsText(start) == IF start.t = "ts" THEN "now-" \o IntStr(start.ago) \o "s" ELSE "garbage"

Verdict(o, line) == [outcome |-> o, out |-> line]

OkLine == "BORGBACKUP OK"
TooOldLine(start) == "BORGBACKUP WARNING: last backup too old\n\n" \o TsText(start)
TooSmallLine(size, min_size) ==
    "BORGBACKUP WARNING: last backup too small\n\n" \o IntStr(size) \o "B < " \o IntStr(min_size) \o "B"

\* action_check_age, app.py 148-153
action_check_age_size(archive, min_size) ==
    IF ~Has(archive, "stats") \/ ~Has(Get(archive, "stats"), "original_size")
    THEN Verdict("KeyError", <<>>)
    ELSE LET size == Get(Get(archive, "stats"), "original_size")
         IN  IF ~Truthy(min_size) THEN Verdict("ok", <<OkLine>>)
             ELSE IF size.t # "int" THEN Verdict("TypeError", <<>>)
             ELSE IF size.i < min_size[1]
                  THEN Verdict("SystemExit", <<TooSmallLine(size.i, min_size[1])>>)
                  ELSE Verdict("ok", <<OkLine>>)

\* the check with >= for > in the comparison of line 144
action_check_age_verdict_Inclusive(rep, max_age, min_size) ==
    IF rep.t = "unparseable" THEN Verdict("YAMLError", <<>>)
    ELSE IF rep.t = "null" THEN Verdict("TypeError", <<>>)
    ELSE IF ~Has(rep.d, "archives") THEN Verdict("KeyError", <<>>)
    ELSE IF Get(rep.d, "archives") = <<>> THEN Verdict("IndexError", <<>>)
    ELSE LET archive == Get(rep.d, "archives")[1]
         IN  IF ~Has(archive, "start") THEN Verdict("KeyError", <<>>)
             ELSE IF Get(archive, "start").t # "ts" THEN Verdict("ValueError", <<>>)
             ELSE IF Get(archive, "start").ago >= max_age
                  THEN Verdict("SystemExit", <<TooOldLine(Get(archive, "start"))>>)
                  ELSE action_check_age_size(archive, min_size)

\* action_check_age, app.py 141-153: what the check does with the stdout of info
action_check_age_verdict(rep, max_age, min_size) ==
    IF rep.t = "unparseable" THEN Verdict("YAMLError", <<>>)
    ELSE IF rep.t = "null" THEN Verdict("TypeError", <<>>)
    ELSE IF ~Has(rep.d, "archives") THEN Verdict("KeyError", <<>>)
    ELSE IF Get(rep.d, "archives") = <<>> THEN Verdict("IndexError", <<>>)
    ELSE LET archive == Get(rep.d, "archives")[1]
         IN  IF ~Has(archive, "start") THEN Verdict("KeyError", <<>>)
             ELSE IF Get(archive, "start").t # "ts" THEN Verdict("ValueError", <<>>)
             ELSE IF Get(archive, "start").ago > max_age
                  THEN Verdict("SystemExit", <<TooOldLine(Get(archive, "start"))>>)
                  ELSE action_check_age_size(archive, min_size)

\* the exit status of the interpreter: 0 on return, 1 on sys.exit(1) and on
\* an uncaught exception
ExitCode(o) == IF o = "ok" THEN 0 ELSE 1

----------------------------------------------------------------------------
(* The steps of a run *)

ExitCodes == {0, 1}

\* an uncaught exception ends the run
Raise(e) == outcome' = e /\ pc' = "done"

\* control reaches `next`; reaching "done" is the return of execute()
Goto(next) == pc' = next /\ outcome' = (IF next = "done" THEN "ok" ELSE outcome)

Hook(h) == [kind |-> "hook", argv |-> <<h>>, env |-> <<>>, capture |-> FALSE]

Tool(r) == [kind |-> "tool", argv |-> r.cmds, env |-> r.env, capture |-> r.capture]

\* a started process, with the exit status it ends with
Exited(proc, rc) ==
    [kind |-> proc.kind, argv |-> proc.argv, env |-> proc.env, capture |-> proc.capture, rc |-> rc]

\* the runner without check=True: the exit status is ignored
SubprocessRunner_run_Unchecked(proc, next) ==
    \E rc \in ExitCodes :
        /\ launched' = Append(launched, Exited(proc, rc))
        /\ Goto(next)

\* SubprocessRunner.run / run_hook, app.py 14-18: the process is started and
\* waited for; check=True turns a non-zero exit status into CalledProcessError
SubprocessRunner_run(proc, next) ==
    \E rc \in ExitCodes :
        /\ launched' = Append(launched, Exited(proc, rc))
        /\ IF rc = 0 THEN Goto(next) ELSE Raise("CalledProcessError")

\* a call of run(): the lookups of run() may raise before the runner is reached
CallRun(r, next) ==
    IF r.err # "none"
    THEN Raise(r.err) /\ UNCHANGED launched
    ELSE SubprocessRunner_run(Tool(r), next)

SkipLine(h) == "Not running hook \"" \o h \o "\" as dry run is enabled."

\* main, app.py 225-228: args.execution(config, args)
main ==
    /\ pc = "main"
    /\ pc' = CASE args.action = "create" -> "hooks_before"
               [] args.action = "list" -> "action_list"
               [] args.action = "prune" -> "action_prune"
               [] args.action = "nagios-check-age" -> "CheckAgeAction"
    /\ UNCHANGED <<config, args, i, launched, printed, outcome, report>>

\* the hook loop without the `if dry_run` of lines 161 and 172
run_hooks_IgnoringDryRun(which, next) ==
    IF ~Has(config, "hooks") \/ ~Has(Get(config, "hooks"), which)
    THEN Goto(next) /\ UNCHANGED <<i, launched, printed>>
    ELSE LET hooks == Get(Get(config, "hooks"), which)
         IN  IF i > Len(hooks)
             THEN Goto(next) /\ i' = 1 /\ UNCHANGED <<launched, printed>>
             ELSE /\ SubprocessRunner_run(Hook(hooks[i]), pc)
                  /\ i' = i + 1
                  /\ UNCHANGED printed

\* hooks_before / hooks_after, app.py 156-175: one step is the early return,
\* one iteration of the loop, or the end of the loop
run_hooks(which, next) ==
    IF ~Has(config, "hooks") \/ ~Has(Get(config, "hooks"), which)
    THEN Goto(next) /\ UNCHANGED <<i, launched, printed>>
    ELSE LET hooks == Get(Get(config, "hooks"), which)
         IN  IF i > Len(hooks)
             THEN Goto(next) /\ i' = 1 /\ UNCHANGED <<launched, printed>>
             ELSE IF args.dry_run
                  THEN /\ printed' = Append(printed, SkipLine(hooks[i]))
                       /\ i' = i + 1
                       /\ UNCHANGED <<pc, outcome, launched>>
                  ELSE /\ SubprocessRunner_run(Hook(hooks[i]), pc)
                       /\ i' = i + 1
                       /\ UNCHANGED printed

\* CreateAction.execute without the `if not args.no_prune`
AfterHooks_AlwaysPrune == "action_prune"

\* CreateAction.execute, app.py 37-38: what follows hooks_after
AfterHooks == IF ~args.no_prune THEN "action_prune" ELSE "done"

hooks_before ==
    /\ pc = "hooks_before"
    /\ run_hooks("before", "action_create")
    /\ UNCHANGED <<config, args, report>>

action_create ==
    /\ pc = "action_create"
    /\ CallRun(action_create_run(config, args.dry_run), "hooks_after")
    /\ UNCHANGED <<config, args, i, printed, report>>

hooks_after ==
    /\ pc = "hooks_after"
    /\ run_hooks("after", AfterHooks)
    /\ UNCHANGED <<config, args, report>>

\* action_prune, reached from PruneAction.execute and from CreateAction.execute
action_prune ==
    /\ pc = "action_prune"
    /\ CallRun(action_prune_run(config, args.dry_run), "done")
    /\ UNCHANGED <<config, args, i, printed, report>>

action_list ==
    /\ pc = "action_list"
    /\ CallRun(action_list_run(config), "done")
    /\ UNCHANGED <<config, args, i, printed, report>>

\* action_check_age, app.py 139-153
action_check_age(max_age, min_size) ==
    LET r == action_check_age_run(config)
    IN  IF r.err # "none"
        THEN Raise(r.err) /\ UNCHANGED <<launched, printed>>
        ELSE \E rc \in ExitCodes :
                 /\ launched' = Append(launched, Exited(Tool(r), rc))
                 /\ IF rc # 0
                    THEN Raise("CalledProcessError") /\ UNCHANGED printed
                    ELSE LET v == action_check_age_verdict(report, max_age, min_size)
                         IN  /\ printed' = printed \o v.out
                             /\ outcome' = v.outcome
                             /\ pc' = "done"

\* CheckAgeAction.execute, app.py 69-74
CheckAgeAction_execute ==
    /\ pc = "CheckAgeAction"
    /\ LET min_size == IF Truthy(args.min_size)
                       THEN <<args.min_size[1] * BytesPerKiB * BytesPerKiB>>
                       ELSE <<>>
       IN  action_check_age(args.max_age * SecondsPerHour, min_size)
    /\ UNCHANGED <<config, args, i, report>>

----------------------------------------------------------------------------
(* Documents and arguments the runs start from *)

PyInt(n) == [t |-> "int", i |-> n]
PyChars(cs) == [t |-> "str", c |-> cs]
PyBool(b) == [t |-> "bool", b |-> b]
PyFloat(tenths) == [t |-> "float", f |-> tenths]
PyNone == [t |-> "null"]

\* the orders in which at most n of the keys K can appear in a mapping
KeyOrders(K, n) ==
    {s \in SeqsUpTo(K, n) : \A a, b \in 1..Len(s) : a # b => s[a] # s[b]}

\* the mapping with the keys of s, in that order, and the values of val
DocOf(s, val) == [j \in 1..Len(s) |-> <<s[j], val[s[j]]>>]

Range(s) == {s[j] : j \in 1..Len(s)}

MkConfig(location, remote, retention, hooks) ==
    <<<<"location", location>>, <<"remote", remote>>, <<"retention", retention>>>> \o hooks

Opt(present, key, value) == IF present THEN <<<<key, value>>>> ELSE <<>>

\* the document without the section `key`
Without(cfg, key) == SelectSeq(cfg, LAMBDA e : e[1] # key)

TestLocation == <<<<"source", [t |-> "list", l |-> <<"source1", "source2">>]>>>>

TestRemote == <<<<"repository", "/path/testrepo">>, <<"prefix", "testprefix">>>>

\* remote sections with and without the two required keys
Remotes ==
    {Opt(r, "repository", "/path/testrepo") \o Opt(p, "prefix", "testprefix") : r, p \in BOOLEAN}

HookLists == SeqsUpTo({"h1", "h2"}, MaxHooks)

\* no hooks section, or a hooks section with either list present or absent
HookSections ==
    {<<>>} \cup
    {<<<<"hooks", b \o a>>>> :
        b \in {<<>>} \cup {<<<<"before", h>>>> : h \in HookLists},
        a \in {<<>>} \cup {<<<<"after", h>>>> : h \in HookLists}}

DeclaredHooks == <<<<"hooks", <<<<"before", <<"h1">>>>, <<"after", <<"h2">>>>>>>>>>

FewKeeps == <<<<"keep_daily", PyInt(7)>>>>

Args(action, dry_run, no_prune, max_age, min_size) ==
    [action |-> action, dry_run |-> dry_run, no_prune |-> no_prune,
     max_age |-> max_age, min_size |-> min_size]

\* --max-age is required, --min-size is optional (None when not given)
MaxAges == 0..MaxAgeHours
MinSizes == {<<>>} \cup {<<m>> : m \in 0..MaxSizeMiB}

CheckArgs(dry) == {Args("nagios-check-age", dry, FALSE, h, m) : h \in MaxAges, m \in MinSizes}

\* status reports: seconds since the start, and sizes, around the thresholds
Agos == {h * SecondsPerHour + d : h \in MaxAges, d \in {-1, 0, 1}} \cap Nat
Sizes == {m * BytesPerKiB * BytesPerKiB + d : m \in 0..MaxSizeMiB, d \in {-1, 0, 1}} \cap Nat

Ts(n) == [t |-> "ts", ago |-> n]
Report(archives) == [t |-> "map", d |-> <<<<"archives", archives>>>>]

GoodArchives ==
    {<<<<"start", Ts(n)>>, <<"stats", <<<<"original_size", PyInt(z)>>>>>>>> : n \in Agos, z \in Sizes}

WellFormedReports == {Report(<<a>>) : a \in GoodArchives}

\* is this what a status query prints: a mapping whose archive list is not
\* empty and whose first archive has a parseable start and an integer size
WellFormed(rep) ==
    /\ rep.t = "map"
    /\ Has(rep.d, "archives")
    /\ Get(rep.d, "archives") # <<>>
    /\ LET a == Get(rep.d, "archives")[1]
       IN  /\ Has(a, "start") /\ Get(a, "start").t = "ts"
           /\ Has(a, "stats") /\ Has(Get(a, "stats"), "original_size")
           /\ Get(Get(a, "stats"), "original_size").t = "int"

MalformedReports ==
    {[t |-> "unparseable"], [t |-> "null"], [t |-> "map", d |-> <<>>], Report(<<>>)}
    \cup {Report(<<<<<<"stats", <<<<"original_size", PyInt(z)>>>>>>>>>>) : z \in Sizes}
    \cup {Report(<<<<<<"start", [t |-> "bad"]>>, <<"stats", <<<<"original_size", PyInt(z)>>>>>>>>>>) : z \in Sizes}
    \cup {Report(<<<<<<"start", Ts(n)>>>>>>) : n \in Agos}
    \cup {Report(<<<<<<"start", Ts(n)>>, <<"stats", <<>>>>>>>>) : n \in Agos}
    \cup {Report(<<<<<<"start", Ts(n)>>, <<"stats", <<<<"original_size", PyChars(<<"1", "k">>)>>>>>>>>>>) : n \in Agos}

NoReport == [t |-> "null"]

Start ==
    /\ pc = "main"
    /\ i = 1
    /\ launched = <<>>
    /\ printed = <<>>
    /\ outcome = "running"

----------------------------------------------------------------------------
(* Spec: every action, over the hooks, the required remote keys and the    *)
(* presence of the retention section                                       *)

Init ==
    /\ Start
    /\ \E remote \in Remotes, hooks \in HookSections :
         config \in {MkConfig(TestLocation, remote, FewKeeps, hooks),
                     Without(MkConfig(TestLocation, remote, FewKeeps, hooks), "retention")}
    /\ \E dry \in BOOLEAN :
         args \in {Args("create", dry, np, 0, <<>>) : np \in BOOLEAN}
                  \cup {Args("list", dry, FALSE, 0, <<>>), Args("prune", dry, FALSE, 0, <<>>)}
                  \cup CheckArgs(dry)
    /\ report \in IF args.action = "nagios-check-age"
                  THEN {Report(<<CHOOSE a \in GoodArchives : TRUE>>), Report(<<>>)}
                  ELSE {NoReport}

Next ==
    \/ main
    \/ hooks_before
    \/ action_create
    \/ hooks_after
    \/ action_prune
    \/ action_list
    \/ CheckAgeAction_execute

Spec == Init /\ [][Next]_vars

----------------------------------------------------------------------------
(* SpecCheckAge: the monitoring check over the reports and the thresholds *)

InitCheckAge ==
    /\ Start
    /\ config = MkConfig(TestLocation, TestRemote, FewKeeps, DeclaredHooks)
    /\ \E dry \in BOOLEAN : args \in CheckArgs(dry)
    /\ report \in WellFormedReports \cup MalformedReports

NextCheckAge ==
    \/ main
    \/ CheckAgeAction_execute

SpecCheckAge == InitCheckAge /\ [][NextCheckAge]_vars

----------------------------------------------------------------------------
(* SpecPrune: the prune action over the retention mappings *)

RetentionKeys ==
    <<"keep_last", "keep_within", "keep_hourly", "keep_daily", "keep_weekly",
      "keep_monthly", "keep_yearly">>

RetentionValues == {PyInt(7), PyInt(30), PyChars(<<"2", "d">>)}

Reverse(s) == [j \in 1..Len(s) |-> s[Len(s) + 1 - j]]

AllKeeps == [j \in 1..Len(RetentionKeys) |-> <<RetentionKeys[j], PyInt(j + 8)>>]

\* every mapping with at most MaxRetention keys, in every order, and the
\* mapping with all keys in the canonical and in the opposite order
RetentionDocs ==
    {[j \in 1..Len(s) |-> <<s[j], vs[j]>>] :
        <<s, vs>> \in {<<s, vs>> \in KeyOrders(Range(RetentionKeys), MaxRetention)
                                      \X SeqsUpTo(RetentionValues, MaxRetention) :
                          Len(s) = Len(vs)}}
    \cup {AllKeeps, Reverse(AllKeeps)}

InitPrune ==
    /\ Start
    /\ \E retention \in RetentionDocs, remote \in {TestRemote, Reverse(TestRemote)} :
         config \in {MkConfig(TestLocation, remote, retention, DeclaredHooks),
                     Without(MkConfig(TestLocation, remote, <<>>, DeclaredHooks), "retention")}
    /\ \E dry \in BOOLEAN : args = Args("prune", dry, FALSE, 0, <<>>)
    /\ report = NoReport

NextPrune ==
    \/ main
    \/ action_prune

SpecPrune == InitPrune /\ [][NextPrune]_vars

----------------------------------------------------------------------------
(* SpecCreate: the create action over the location and remote sections *)

LocationKeys ==
    <<"source", "one_file_system", "exclude_caches", "exclude_if_present", "exclude">>

Sources ==
    {[t |-> "str", s |-> "source1"], [t |-> "list", l |-> <<"source1">>],
     [t |-> "list", l |-> <<"source2", "source1">>]}

\* lists of at most MaxExcludes entries, in every order
Excludes == SeqsUpTo({"a", "b"}, MaxExcludes)

\* the same, without repeated entries
Markers == KeyOrders({"a", "b"}, MaxExcludes)

LocationValues ==
    [source : Sources,
     one_file_system : {PyChars(<<"Y", "e", "s">>), PyInt(0)},
     exclude_caches : {PyBool(TRUE), PyChars(<<"n", "o">>)},
     exclude_if_present : Markers,
     exclude : Excludes]

\* the keys of K in the canonical order
Canonical(K) == SelectSeq(LocationKeys, LAMBDA k : k \in K)

\* every location section with a source, its keys in the canonical or in the
\* opposite order
LocationDocs ==
    {DocOf(s, val) :
        s \in UNION {{Canonical(K \cup {"source"}), Reverse(Canonical(K \cup {"source"}))} :
                        K \in SUBSET Range(LocationKeys)},
        val \in LocationValues}

CreateRemotes ==
    {TestRemote,
     <<<<"compression", "lz4">>>> \o Reverse(TestRemote),
     TestRemote \o <<<<"rsh", "ssh -i key">>, <<"compression", "zlib,6">>>>}

CreateStart ==
    /\ Start
    /\ report = NoReport

InitCreate ==
    /\ CreateStart
    /\ \E location \in LocationDocs, remote \in CreateRemotes :
         config = MkConfig(location, remote, FewKeeps, <<>>)
    /\ \E dry \in BOOLEAN : args = Args("create", dry, TRUE, 0, <<>>)

NextCreate ==
    \/ main
    \/ hooks_before
    \/ action_create
    \/ hooks_after

SpecCreate == InitCreate /\ [][NextCreate]_vars

----------------------------------------------------------------------------
(* SpecCoerce: the create action over the values of the two boolean fields *)

UpperChar(c) ==
    CASE c = "y" -> "Y" [] c = "e" -> "E" [] c = "s" -> "S" [] c = "t" -> "T"
      [] c = "r" -> "R" [] c = "u" -> "U" [] c = "n" -> "N" [] c = "o" -> "O"
      [] c = "f" -> "F" [] c = "a" -> "A" [] c = "l" -> "L"
      [] OTHER -> c

\* the spellings of a word in upper and lower case
RECURSIVE Spellings(_)
Spellings(w) ==
    IF w = <<>> THEN {<<>>}
    ELSE {<<c>> \o r : c \in {Head(w), UpperChar(Head(w))}, r \in Spellings(Tail(w))}

Words ==
    {<<"y", "e", "s">>, <<"t", "r", "u", "e">>, <<"n", "o">>, <<"o", "n">>, <<"y">>,
     <<"t">>, <<"y", "e">>, <<"y", "e", "s", "s">>, <<"t", "r", "u">>,
     <<"t", "r", "u", "e", "e">>, <<"f", "a", "l", "s", "e">>, <<"1">>, <<"0">>, <<>>,
     <<"y", "e", "s", " ">>, <<" ", "t", "r", "u", "e">>}

\* what yaml.safe_load can give a scalar field
YamlScalars ==
    {PyBool(b) : b \in BOOLEAN}
    \cup {PyChars(cs) : cs \in UNION {Spellings(w) : w \in Words}}
    \cup {PyInt(n) : n \in -1..2}
    \cup {PyFloat(f) : f \in {-10, 0, 5, 10, 11, 20}}
    \cup {PyNone}

BoolFields == {"one_file_system", "exclude_caches"}

InitCoerce ==
    /\ CreateStart
    /\ \E field \in BoolFields, value \in YamlScalars, present \in BOOLEAN :
         config = MkConfig(TestLocation \o Opt(present, field, value), TestRemote, FewKeeps, <<>>)
    /\ args = Args("create", FALSE, TRUE, 0, <<>>)

SpecCoerce == InitCoerce /\ [][NextCreate]_vars

----------------------------------------------------------------------------
(* What a run has done so far *)

\* the invocations of the external tool, as SubprocessRunnerSpy.cmds records them
cmds == SelectSeq(launched, LAMBDA p : p.kind = "tool")

\* the hooks that were executed, as SubprocessRunnerSpy.hook records them
hook == SelectSeq(launched, LAMBDA p : p.kind = "hook")

\* the hooks the policy declares
Declared(which) ==
    IF Has(config, "hooks") /\ Has(Get(config, "hooks"), which)
    THEN Get(Get(config, "hooks"), which) ELSE <<>>

HasRepository == Has(Get(config, "remote"), "repository")
HasPrefix == Has(Get(config, "remote"), "prefix")
HasRetention == Has(config, "retention")

\* a started process reduced to what it is: a hook's text, or the tool's subaction
Step(p) == IF p.kind = "hook" THEN <<"hook", p.argv[1]>> ELSE <<"tool", p.argv[2]>>

Steps == [j \in 1..Len(launched) |-> Step(launched[j])]

HookSteps(hs) == [j \in 1..Len(hs) |-> <<"hook", hs[j]>>]

SkipLines(hs) == [j \in 1..Len(hs) |-> SkipLine(hs[j])]

IsPrefix(a, b) == Len(a) <= Len(b) /\ a = SubSeq(b, 1, Len(a))

Last(a) == a[Len(a)]

Contains(a, x) == \E j \in 1..Len(a) : a[j] = x

----------------------------------------------------------------------------
(* The create pipeline *)

\* the pipeline the create action is to run when nothing fails
CreatePipeline ==
    HookSteps(Declared("before")) \o <<<<"tool", "create">>>> \o HookSteps(Declared("after"))
    \o (IF args.no_prune THEN <<>> ELSE <<<<"tool", "prune">>>>)

\* C1: a create run without dry-run never starts a process out of the order
\* before-hooks, create, after-hooks, prune, and a run that ends without a
\* failure has started exactly these: all before-hooks in declaration order,
\* one create, all after-hooks in declaration order, then one prune, which is
\* absent with --no-prune (create is then the only tool invocation).
C1_CreateOrder ==
    (args.action = "create" /\ ~args.dry_run) =>
        /\ IsPrefix(Steps, CreatePipeline)
        /\ outcome = "ok" =>
             /\ Steps = CreatePipeline
             /\ Len(cmds) = (IF args.no_prune THEN 1 ELSE 2)
             /\ (Declared("before") = <<>> /\ Declared("after") = <<>>) => launched = cmds

C1_Witness ==
    /\ args.action = "create" /\ ~args.dry_run /\ ~args.no_prune /\ outcome = "ok"
    /\ Len(Declared("before")) = 2 /\ Len(Declared("after")) = 2
    /\ Declared("before")[1] # Declared("before")[2]
    /\ Len(launched) = 6

\* C2: in a create run a step that exits non-zero is the last process the run
\* starts: the run has ended with the fatal error, nothing was started after
\* the failed step and the step was not started again; so a failing
\* before-hook means create is never invoked.
C2_FailureAborts ==
    args.action = "create" =>
        \A j \in 1..Len(launched) :
            launched[j].rc # 0 =>
                /\ j = Len(launched)
                /\ pc = "done"
                /\ outcome = "CalledProcessError"
                /\ (launched[j].kind = "hook" /\ j <= Len(Declared("before"))) => cmds = <<>>

C2_Witness ==
    /\ args.action = "create"
    /\ Len(Declared("before")) = 2 /\ Len(Declared("after")) = 1
    /\ Len(launched) = 1 /\ launched[1].kind = "hook" /\ launched[1].rc # 0
    /\ pc = "done" /\ cmds = <<>>

\* C3: for create and prune, a policy without remote.repository or without
\* remote.prefix fails before any process is launched: no hook and no tool
\* invocation has been started, whatever hooks the policy declares.
C3_ConfigErrorBeforeLaunch ==
    (args.action \in {"create", "prune"} /\ ~(HasRepository /\ HasPrefix)) =>
        /\ launched = <<>>
        /\ pc = "done" => outcome = "KeyError"

\* C4: under dry-run no hook is executed and every declared hook a create run
\* passes is reported as skipped instead, while the tool is still invoked for
\* create and for prune, each time with --dry-run; without dry-run no create
\* or prune invocation carries --dry-run.
C4_DryRun ==
    /\ args.dry_run => hook = <<>>
    /\ \A j \in 1..Len(cmds) :
         cmds[j].argv[2] \in {"create", "prune"} =>
             (Contains(cmds[j].argv, "--dry-run") <=> args.dry_run)
    /\ (args.dry_run /\ args.action = "create") =>
         /\ IsPrefix(printed, SkipLines(Declared("before") \o Declared("after")))
         /\ cmds # <<>> => IsPrefix(SkipLines(Declared("before")), printed)
         /\ outcome = "ok" =>
              /\ printed = SkipLines(Declared("before") \o Declared("after"))
              /\ Steps = <<<<"tool", "create">>>> \o (IF args.no_prune THEN <<>> ELSE <<<<"tool", "prune">>>>)
    /\ (args.dry_run /\ args.action = "prune" /\ outcome = "ok") => Steps = <<<<"tool", "prune">>>>

C4_Witness ==
    /\ args.dry_run /\ args.action = "create" /\ ~args.no_prune /\ outcome = "ok"
    /\ Len(Declared("before")) = 2 /\ Len(Declared("after")) = 1
    /\ Len(printed) = 3 /\ Len(cmds) = 2

\* C10: a run of list, prune or nagios-check-age starts exactly one process,
\* the tool with the subaction list, prune or info and the bare repository
\* (no archive suffix), and never a hook, whatever hooks the policy declares:
\* only the create action executes hooks.
C10_SingleInvocation ==
    /\ hook # <<>> => args.action = "create"
    /\ args.action \in {"list", "prune", "nagios-check-age"} =>
         /\ Len(launched) <= 1
         /\ (pc = "done" /\ HasRepository /\ (args.action = "prune" => HasPrefix /\ HasRetention)) =>
              /\ Len(launched) = 1
              /\ launched[1].kind = "tool"
              /\ launched[1].argv[1] = "borgbackup"
              /\ launched[1].argv[2] = (CASE args.action = "list" -> "list"
                                          [] args.action = "prune" -> "prune"
                                          [] args.action = "nagios-check-age" -> "info")
              /\ Last(launched[1].argv) = Get(Get(config, "remote"), "repository")
              /\ args.action = "list" => Len(launched[1].argv) = 3

C10_Witness ==
    /\ args.action = "nagios-check-age" /\ pc = "done"
    /\ Declared("before") # <<>> /\ Declared("after") # <<>>
    /\ Len(launched) = 1 /\ launched[1].rc = 0

----------------------------------------------------------------------------
(* The monitoring check *)

\* the check has read the stdout of a successful status query
Checked == pc = "done" /\ Len(launched) = 1 /\ launched[1].rc = 0

\* the thresholds as the check receives them
maxAgeSeconds == args.max_age * SecondsPerHour
minSizeProvided == args.min_size # <<>>
minSizeBytes == args.min_size[1] * BytesPerKiB * BytesPerKiB

FirstArchive == Get(report.d, "archives")[1]
elapsed == Get(FirstArchive, "start").ago
original_size == Get(Get(FirstArchive, "stats"), "original_size").i

IsOk == outcome = "ok" /\ printed = <<OkLine>> /\ ExitCode(outcome) = 0
IsTooOld ==
    /\ outcome = "SystemExit" /\ ExitCode(outcome) = 1
    /\ printed = <<TooOldLine(Get(FirstArchive, "start"))>>
IsTooSmall ==
    /\ outcome = "SystemExit" /\ ExitCode(outcome) = 1
    /\ printed = <<TooSmallLine(original_size, minSizeBytes)>>

\* C5: on a well-formed report the check gives exactly one verdict: too old
\* (exit 1) when elapsed > maxAgeSeconds whatever the size; too small (exit 1)
\* when elapsed <= maxAgeSeconds, a minimum size is given and original_size is
\* below it; OK (exit 0) when elapsed <= maxAgeSeconds and the minimum size is
\* absent or original_size is at least the minimum.
C5_Verdict ==
    (Checked /\ WellFormed(report)) =>
        IF elapsed > maxAgeSeconds THEN IsTooOld
        ELSE IF minSizeProvided /\ original_size < minSizeBytes THEN IsTooSmall
        ELSE IsOk

C5_Witness ==
    /\ Checked /\ WellFormed(report)
    /\ elapsed = maxAgeSeconds /\ elapsed > 0
    /\ minSizeProvided /\ original_size = minSizeBytes - 1
    /\ Len(printed) = 1 /\ outcome = "SystemExit"

\* C6: on a malformed report, or one with an empty archive list, the check
\* fails with a parse error and gives none of the verdicts OK, too old, too
\* small: it prints none of their lines and does not end as they do.
C6_MalformedIsError ==
    (Checked /\ ~WellFormed(report)) =>
        /\ printed = <<>>
        /\ outcome \notin {"ok", "SystemExit"}

----------------------------------------------------------------------------
(* The compiled commands *)

\* the only tool invocation of the run
TheCommand == cmds[1].argv

Repository == Get(Get(config, "remote"), "repository")
Prefix == Get(Get(config, "remote"), "prefix")

\* a section read as a mapping: is the key present, and its value
Present(section, key) == \E e \in Range(Get(config, section)) : e[1] = key
ValueOf(section, key) == (CHOOSE e \in Range(Get(config, section)) : e[1] = key)[2]

\* how a retention value is written on the command line
Written(v) == IF v.t = "int" THEN ToString(v.i) ELSE Join(v.c)

KeepKinds == <<"last", "within", "hourly", "daily", "weekly", "monthly", "yearly">>

\* the --keep-<kind> <value> pairs of the kinds from the n-th on
RECURSIVE KeepPairs(_)
KeepPairs(n) ==
    IF n > Len(KeepKinds) THEN <<>>
    ELSE (IF Present("retention", "keep_" \o KeepKinds[n])
          THEN <<"--keep-" \o KeepKinds[n], Written(ValueOf("retention", "keep_" \o KeepKinds[n]))>>
          ELSE <<>>) \o KeepPairs(n + 1)

\* C7: the prune invocation is exactly: tool, prune, --stats, --list,
\* --prefix <prefix>, then --dry-run iff dry-run is requested, then one
\* --keep-<kind> <value> pair for each retention key present and for no
\* absent key, in the order last, within, hourly, daily, weekly, monthly,
\* yearly whatever the order of the keys in the document, then the bare
\* repository.
C7_PruneCommand ==
    (args.action = "prune" /\ cmds # <<>>) =>
        TheCommand = <<"borgbackup", "prune", "--stats", "--list", "--prefix", Prefix>>
                     \o (IF args.dry_run THEN <<"--dry-run">> ELSE <<>>)
                     \o KeepPairs(1)
                     \o <<Repository>>

C7_Witness ==
    /\ args.action = "prune" /\ cmds # <<>> /\ args.dry_run
    /\ Len(Get(config, "retention")) = 2
    /\ Get(config, "retention")[1][1] = "keep_yearly"
    /\ Get(config, "retention")[2][1] = "keep_last"
    /\ Get(config, "retention")[2][2] = PyInt(30)
    /\ Len(TheCommand) = 12

\* the truthy-boolean coercion as the compiler applies it
IsTrue(v) ==
    \/ v.t = "bool" /\ v.b
    \/ v.t = "str" /\ \E w \in {<<"y", "e", "s">>, <<"t", "r", "u", "e">>} : v.c \in Spellings(w)
    \/ v.t = "int" /\ v.i = 1
    \/ v.t = "float" /\ v.f = 10

Switch(section, key, flag) ==
    IF Present(section, key) /\ IsTrue(ValueOf(section, key)) THEN <<flag>> ELSE <<>>

RECURSIVE Repeated(_, _)
Repeated(flag, xs) ==
    IF xs = <<>> THEN <<>> ELSE Repeated(flag, SubSeq(xs, 1, Len(xs) - 1)) \o <<flag, Last(xs)>>

Listed(section, key, flag) ==
    IF Present(section, key) THEN Repeated(flag, ValueOf(section, key)) ELSE <<>>

SourcePaths ==
    LET source == ValueOf("location", "source")
    IN  IF source.t = "list" THEN source.l ELSE [j \in {1} |-> source.s]

\* C8: the create invocation is exactly: tool, create, the optional flags in
\* the order compression, one-file-system, exclude-caches, exclude-if-present
\* pairs, exclude pairs (both in document order), dry-run, each present iff
\* its field is set, truthy or requested and whatever the order of the keys
\* in the document, then <repository>::<prefix>-<timestamp template>, then the
\* source paths, a single string counting as the one-element list of it.
C8_CreateCommand ==
    (args.action = "create" /\ cmds # <<>>) =>
        TheCommand = <<"borgbackup", "create">>
                     \o (IF Present("remote", "compression")
                         THEN <<"--compression", ValueOf("remote", "compression")>> ELSE <<>>)
                     \o Switch("location", "one_file_system", "--one-file-system")
                     \o Switch("location", "exclude_caches", "--exclude-caches")
                     \o Listed("location", "exclude_if_present", "--exclude-if-present")
                     \o Listed("location", "exclude", "--exclude")
                     \o (IF args.dry_run THEN <<"--dry-run">> ELSE <<>>)
                     \o <<Repository \o "::" \o Prefix \o "-{utcnow:%Y-%m-%dT%H:%M:%SZ}">>
                     \o SourcePaths

C8_Witness ==
    /\ args.action = "create" /\ cmds # <<>> /\ args.dry_run
    /\ Get(config, "location")[1][1] = "exclude"
    /\ Len(Get(config, "location")) = 5
    /\ Get(config, "remote")[1][1] = "compression"
    /\ ValueOf("location", "source").t = "str"
    /\ ValueOf("location", "exclude") = <<"b", "a">>
    /\ ValueOf("location", "exclude_if_present") = <<"a", "b">>
    /\ Len(TheCommand) = 17

\* the field of the run that holds a boolean, and the flag it switches
TheField == CHOOSE f \in BoolFields : Present("location", f)
TheFlag == IF TheField = "one_file_system" THEN "--one-file-system" ELSE "--exclude-caches"
CoerceCase == cmds # <<>> /\ \E f \in BoolFields : Present("location", f)

\* the coercion as claimed: true, "yes" or "true" in any case, the integer 1
ClaimedTrue(v) ==
    \/ v.t = "bool" /\ v.b
    \/ v.t = "str" /\ \E w \in {<<"y", "e", "s">>, <<"t", "r", "u", "e">>} : v.c \in Spellings(w)
    \/ v.t = "int" /\ v.i = 1

\* C9 as claimed: create emits --one-file-system and --exclude-caches exactly
\* for the boolean true, a string equal to "yes" or "true" whatever its case,
\* and the integer 1; for every other value the coercion is false.
C9_CoercionAsClaimed ==
    CoerceCase => (Contains(TheCommand, TheFlag) <=> ClaimedTrue(ValueOf("location", TheField)))

\* C9 as amended: create emits --one-file-system and --exclude-caches exactly
\* for the boolean true, a string equal to "yes" or "true" whatever its case,
\* and a number equal to 1, the integer 1 or the float 1.0; for every other
\* value the coercion is false.
C9_Coercion ==
    /\ CoerceCase => (Contains(TheCommand, TheFlag) <=> IsTrue(ValueOf("location", TheField)))
    /\ (cmds # <<>> /\ args.action = "create") =>
         \A f \in BoolFields : ~Present("location", f) =>
             ~Contains(TheCommand, IF f = "one_file_system" THEN "--one-file-system" ELSE "--exclude-caches")

C9_Witness ==
    /\ CoerceCase
    /\ TheField = "exclude_caches"
    /\ ValueOf("location", TheField) = PyChars(<<"t", "R", "u", "E">>)
    /\ Contains(TheCommand, "--exclude-caches")

====
